---- MODULE Spec2Model ----
(***************************************************************************)
(* Model of inventory.py: the AnsibleGitInventory class (temporary         *)
(* working directory, git clone, parse_inventory) and the main program.    *)
(*                                                                         *)
(* Strings that become group names are represented by the sequence of      *)
(* their '-'-free segments: "web-us" is <<"web", "us">>, "prod" is         *)
(* <<"prod">>.  Every string has exactly one such representation, and      *)
(* '{0}-{1}'.format(a, b) is the concatenation of the two sequences, so    *)
(* two formatted names are equal in the model exactly when the Python      *)
(* strings are equal.                                                      *)
(*                                                                         *)
(* A Python dict is a function; "k in d" is k \in DOMAIN d.  A group       *)
(* {'children': [...]} is [children |-> <<...>>], {'hosts': h} is          *)
(* [hosts |-> h] and {'hostvars': {}} is [hostvars |-> <<>>] (the empty    *)
(* function).                                                              *)
(***************************************************************************)
EXTENDS Integers, Sequences, FiniteSets, TLC

VARIABLES
    pc,            \* position of the program
    environ,       \* os.environ
    argv,          \* command line, as argparse sees it
    inventory,     \* main: the inventory path that was resolved
    kwargs_clone,  \* main: keyword arguments for clone_repository
    source,        \* which branch of the if at line 156 ran
    working_dir,   \* state of the temporary directory on disk
    command,       \* the git command line built by clone_repository
    file,          \* what the repository holds at the inventory path
    name,          \* parse_inventory: inventory name
    data,          \* parse_inventory: the loaded YAML document
    result,        \* parse_inventory: the group graph under construction
    tiers,         \* tiers the outer loop has not visited yet
    tier,          \* tier of the current outer iteration
    locs,          \* locations the inner loop has not visited yet
    output,        \* the JSON document returned by parse_inventory
    exc,           \* exception in flight ("none" when there is none)
    stdout,        \* what was written to sys.stdout
    stderr,        \* what was written to sys.stderr
    status,        \* exit status of the process (-1 while running)
    trace,         \* order in which the loops visited tiers and locations
    done,          \* (tier, location) pairs whose inner iteration completed
    cleanups,      \* number of calls of cleanup()
    calls,         \* number of calls of parse_inventory
    prev           \* output and visiting order of the previous call

vars == <<pc, environ, argv, inventory, kwargs_clone, source, working_dir,
          command, file, name, data, result, tiers, tier, locs, output, exc,
          stdout, stderr, status, trace, done, cleanups, calls, prev>>

-----------------------------------------------------------------------------
(* Bounds of the model *)

MaxTiers == 2
MaxPairs == 3
MaxCalls == 2

-----------------------------------------------------------------------------
(* Strings *)

\* '{0}-{1}'.format(a, b) on segment sequences
Format(a, b) == a \o b

META == <<"_meta">>

\* Order of the characters that start the strings used below; every
\* character of these strings sorts after '-', so comparing segment by
\* segment is comparing the joined strings character by character.
AtomRank ==
    [s \in {"_meta", "db", "eu", "prod", "us", "web"} |->
        CASE s = "_meta" -> 0
          [] s = "db" -> 1
          [] s = "eu" -> 2
          [] s = "prod" -> 3
          [] s = "us" -> 4
          [] s = "web" -> 5]

RECURSIVE StrLess(_, _)
StrLess(a, b) ==
    IF a = <<>> THEN b # <<>>
    ELSE IF b = <<>> THEN FALSE
    ELSE IF Head(a) = Head(b) THEN StrLess(Tail(a), Tail(b))
    ELSE AtomRank[Head(a)] < AtomRank[Head(b)]

\* A path is its sequence of components, a component is its sequence of
\* '.'-separated parts, a part is a string as above.
basename(path) == path[Len(path)]

\* os.path.basename(inventory).split('.')[0]
NameOf(path) == basename(path)[1]

-----------------------------------------------------------------------------
(* Values the YAML loader returns, tagged with their Python type *)

PyDict(f) == [kind |-> "dict", val |-> f]
PyList(s) == [kind |-> "list", val |-> s]
PyStr == [kind |-> "str", val |-> <<>>]
PyDate == [kind |-> "date", val |-> <<>>]

\* Python's None, where an optional argument was not given
None == "<None>"

\* truth value of an optional string argument
Truthy(v) == v # None /\ v # ""

-----------------------------------------------------------------------------
(* parse_inventory *)

Children(list) == [children |-> list]

HasChildren(g) == "children" \in DOMAIN g

\* d[k] = v
Put(d, k, v) == (k :> v) @@ d

\* d[k]['children'].append(c)
AppendChild(d, k, c) == Put(d, k, Children(Append(d[k].children, c)))

\* InitResult without the '_meta' entry.
InitResultNoMeta(n) == (n :> Children(<<>>))

\* InitResult on a graph that outlives the call: the two entries are reset,
\* the groups of an earlier call stay.
InitResultStale(n) ==
    Put(Put(result, META, [hostvars |-> <<>>]), n, Children(<<>>))

\* The dict literal: a later key replaces an equal earlier one.
InitResult(n) == Put((META :> [hostvars |-> <<>>]), n, Children(<<>>))

\* TierUpdate adding the inventory-tier name, not the tier, to the root.
TierUpdateInvTier(r, n, t) ==
    LET r1 == Put(r, t, Children(<<>>))
        r2 == Put(r1, Format(n, t), Children(<<t>>))
    IN  IF HasChildren(r2[n])
        THEN [res |-> AppendChild(r2, n, Format(n, t)), err |-> "none"]
        ELSE [res |-> r2, err |-> "KeyError"]

\* Lines 96-107, the part of the outer iteration before the inner loop.
TierUpdate(r, n, t) ==
    LET r1 == Put(r, t, Children(<<>>))
        r2 == Put(r1, Format(n, t), Children(<<t>>))
    IN  IF HasChildren(r2[n])
        THEN [res |-> AppendChild(r2, n, t), err |-> "none"]
        ELSE [res |-> r2, err |-> "KeyError"]

\* AddTierLoc appending the location, not the tier-location name.
AddTierLocBare(r, t, tier_loc) ==
    IF HasChildren(r[t])
    THEN [res |-> AppendChild(r, t, Tail(tier_loc)), err |-> "none"]
    ELSE [res |-> r, err |-> "KeyError"]

\* Line 117.
AddTierLoc(r, t, tier_loc) ==
    IF HasChildren(r[t])
    THEN [res |-> AppendChild(r, t, tier_loc), err |-> "none"]
    ELSE [res |-> r, err |-> "KeyError"]

\* AddToInvLoc without the membership test: the group is created anew for
\* every pair.
AddToInvLocFresh(r, inv_loc, tier_loc) ==
    [res |-> Put(r, inv_loc, Children(<<tier_loc>>)), err |-> "none"]

\* Lines 120-124.
AddToInvLoc(r, inv_loc, tier_loc) ==
    LET r1 == IF inv_loc \notin DOMAIN r
              THEN Put(r, inv_loc, Children(<<>>))
              ELSE r
    IN  IF HasChildren(r1[inv_loc])
        THEN [res |-> AppendChild(r1, inv_loc, tier_loc), err |-> "none"]
        ELSE [res |-> r1, err |-> "KeyError"]

\* x in list
In(x, list) == \E i \in DOMAIN list : list[i] = x

\* AddToLoc without the test of line 131: the entry is appended for every
\* pair.
AddToLocAlways(r, loc, inv_loc) ==
    IF loc \notin DOMAIN r
    THEN [res |-> Put(r, loc, Children(<<inv_loc>>)), err |-> "none"]
    ELSE IF ~HasChildren(r[loc])
    THEN [res |-> r, err |-> "KeyError"]
    ELSE [res |-> AppendChild(r, loc, inv_loc), err |-> "none"]

\* Lines 127-132.
AddToLoc(r, loc, inv_loc) ==
    IF loc \notin DOMAIN r
    THEN [res |-> Put(r, loc, Children(<<inv_loc>>)), err |-> "none"]
    ELSE IF ~HasChildren(r[loc])
    THEN [res |-> r, err |-> "KeyError"]
    ELSE IF ~In(inv_loc, r[loc].children)
    THEN [res |-> AppendChild(r, loc, inv_loc), err |-> "none"]
    ELSE [res |-> r, err |-> "none"]

\* PutLeaf with the two targets exchanged.
PutLeafSwapped(r, tier_loc, inv_tier_loc, hosts) ==
    Put(Put(r, inv_tier_loc, [hosts |-> hosts]),
        tier_loc, Children(<<tier_loc>>))

\* Lines 135-140.
PutLeaf(r, tier_loc, inv_tier_loc, hosts) ==
    Put(Put(r, tier_loc, [hosts |-> hosts]),
        inv_tier_loc, Children(<<tier_loc>>))

\* Lines 112-140, one inner iteration.  res is the graph as the iteration
\* leaves it, err the exception it ends with.
LocUpdate(r, n, t, l, hosts) ==
    LET tier_loc     == Format(t, l)
        inv_loc      == Format(n, l)
        inv_tier_loc == Format(n, tier_loc)
        u1 == AddTierLoc(r, t, tier_loc)
        u2 == IF u1.err = "none"
              THEN AddToInvLoc(u1.res, inv_loc, tier_loc) ELSE u1
        u3 == IF u2.err = "none"
              THEN AddToLoc(u2.res, l, inv_loc) ELSE u2
    IN  IF u3.err = "none"
        THEN [res |-> PutLeaf(u3.res, tier_loc, inv_tier_loc, hosts),
              err |-> "none"]
        ELSE u3

\* json.dumps(obj, sort_keys=True, ...): the keys in ascending order, each
\* with its group; lists keep their order.
RECURSIVE SortKeys(_)
SortKeys(S) ==
    IF S = {} THEN <<>>
    ELSE LET m == CHOOSE k \in S : \A o \in S \ {k} : StrLess(k, o)
         IN  <<m>> \o SortKeys(S \ {m})

dumps(obj) ==
    LET keys == SortKeys(DOMAIN obj)
    IN  [i \in DOMAIN keys |-> <<keys[i], obj[keys[i]]>>]

\* json.dumps raises TypeError on a value it has no encoding for.
Serializable(obj) ==
    \A k \in DOMAIN obj :
        "hosts" \in DOMAIN obj[k] => obj[k].hosts.kind # "date"

\* Lines 71-90 and the start of the loop at line 93.
ParseOpen ==
    /\ pc = "parse"
    /\ calls' = calls + 1
    /\ name' = NameOf(inventory)
    /\ IF file.kind = "missing"
       THEN /\ exc' = "IOError"
            /\ pc' = "exit"
            /\ UNCHANGED <<data, result, tiers>>
       ELSE IF file.kind = "invalid"
       THEN /\ exc' = "YAMLError"
            /\ pc' = "exit"
            /\ UNCHANGED <<data, result, tiers>>
       ELSE /\ data' = file.doc
            /\ result' = InitResult(name')
            /\ IF file.doc.kind = "dict"
               THEN /\ tiers' = DOMAIN file.doc.val
                    /\ pc' = "tier_loop"
                    /\ UNCHANGED exc
               ELSE /\ exc' = "AttributeError"
                    /\ pc' = "exit"
                    /\ UNCHANGED tiers
    /\ UNCHANGED <<environ, argv, inventory, kwargs_clone, source,
                   working_dir, command, file, tier, locs, output, stdout,
                   stderr, status, trace, done, cleanups, prev>>

\* One iteration of the outer loop up to the inner loop: lines 93-109.
TierStep ==
    /\ pc = "tier_loop"
    /\ \E t \in tiers :
          LET u == TierUpdate(result, name, t)
              group == data.val[t]
          IN  /\ result' = u.res
              /\ tiers' = tiers \ {t}
              /\ tier' = t
              /\ trace' = Append(trace, <<t>>)
              /\ IF u.err # "none"
                 THEN /\ exc' = u.err
                      /\ pc' = "exit"
                      /\ UNCHANGED locs
                 ELSE IF group.kind # "dict"
                 THEN /\ exc' = "AttributeError"
                      /\ pc' = "exit"
                      /\ UNCHANGED locs
                 ELSE /\ locs' = DOMAIN group.val
                      /\ pc' = IF DOMAIN group.val = {} THEN "tier_loop"
                                                        ELSE "loc_loop"
                      /\ UNCHANGED exc
    /\ UNCHANGED <<environ, argv, inventory, kwargs_clone, source,
                   working_dir, command, file, name, data, output, stdout,
                   stderr, status, done, cleanups, calls, prev>>

\* One iteration of the inner loop: lines 109-140.
LocStep ==
    /\ pc = "loc_loop"
    /\ \E l \in locs :
          LET u == LocUpdate(result, name, tier, l, data.val[tier].val[l])
          IN  /\ result' = u.res
              /\ locs' = locs \ {l}
              /\ trace' = Append(trace, <<tier, l>>)
              /\ IF u.err # "none"
                 THEN /\ exc' = u.err
                      /\ pc' = "exit"
                      /\ UNCHANGED done
                 ELSE /\ done' = done \cup {<<tier, l>>}
                      /\ pc' = IF locs \ {l} = {} THEN "tier_loop"
                                                  ELSE "loc_loop"
                      /\ UNCHANGED exc
    /\ UNCHANGED <<environ, argv, inventory, kwargs_clone, source,
                   working_dir, command, file, name, data, tiers, tier,
                   output, stdout, stderr, status, cleanups, calls, prev>>

\* Line 142, reached when the outer loop has visited every tier.
ParseReturn ==
    /\ pc = "tier_loop"
    /\ tiers = {}
    /\ pc' = "exit"
    /\ IF Serializable(result)
       THEN /\ output' = dumps(result)
            /\ UNCHANGED exc
       ELSE /\ exc' = "TypeError"
            /\ UNCHANGED output
    /\ UNCHANGED <<environ, argv, inventory, kwargs_clone, source,
                   working_dir, command, file, name, data, result, tiers,
                   tier, locs, stdout, stderr, status, trace, done,
                   cleanups, calls, prev>>

\* A further call of parse_inventory on the same object with the same
\* path, after a call that returned.
Recall ==
    /\ pc = "exit"
    /\ exc = "none"
    /\ calls < MaxCalls
    /\ prev' = [output |-> output, trace |-> trace]
    /\ pc' = "parse"
    /\ trace' = <<>>
    /\ done' = {}
    /\ UNCHANGED <<environ, argv, inventory, kwargs_clone, source,
                   working_dir, command, file, name, data, result, tiers,
                   tier, locs, output, exc, stdout, stderr, status,
                   cleanups, calls>>

-----------------------------------------------------------------------------
(* The class's resource handling and the main program *)

\* UseEnviron without the test for empty values.
UseEnvironPresent(env) ==
    /\ "URL" \in DOMAIN env
    /\ "INVENTORY" \in DOMAIN env

\* The condition of the if at line 156.
UseEnviron(env) ==
    /\ "URL" \in DOMAIN env
    /\ "INVENTORY" \in DOMAIN env
    /\ env["URL"] # ""
    /\ env["INVENTORY"] # <<>>

\* Lines 158-168.
EnvKwargs(env) ==
    [k \in {"url"} \cup (IF "SSHKEY" \in DOMAIN env THEN {"sshkey"} ELSE {})
                   \cup (IF "COMMIT" \in DOMAIN env THEN {"commit"} ELSE {})
        |-> CASE k = "url" -> env["URL"]
              [] k = "sshkey" -> env["SSHKEY"]
              [] k = "commit" -> env["COMMIT"]]

\* Lines 180-184.
CliKwargs(args) ==
    [url |-> args.url, sshkey |-> args.sshkey, commit |-> args.commit]

\* Lines 156-186.  parse_args() ends the process with status 2 when a
\* positional argument is missing.
Resolve ==
    /\ pc = "resolve"
    /\ IF UseEnviron(environ)
       THEN /\ source' = "environ"
            /\ kwargs_clone' = EnvKwargs(environ)
            /\ inventory' = environ["INVENTORY"]
            /\ pc' = "construct"
            /\ UNCHANGED <<stderr, status>>
       ELSE /\ source' = "argv"
            /\ IF argv.ok
               THEN /\ kwargs_clone' = CliKwargs(argv)
                    /\ inventory' = argv.inventory
                    /\ pc' = "construct"
                    /\ UNCHANGED <<stderr, status>>
               ELSE /\ stderr' = Append(stderr, <<"usage", "\n">>)
                    /\ status' = 2
                    /\ pc' = "halt"
                    /\ UNCHANGED <<kwargs_clone, inventory>>
    /\ UNCHANGED <<environ, argv, working_dir, command, file, name, data,
                   result, tiers, tier, locs, output, exc, stdout, trace,
                   done, cleanups, calls, prev>>

\* __init__ and __enter__: lines 26 and 32.
Construct ==
    /\ pc = "construct"
    /\ working_dir' = "exists"
    /\ pc' = "clone"
    /\ UNCHANGED <<environ, argv, inventory, kwargs_clone, source, command,
                   file, name, data, result, tiers, tier, locs, output, exc,
                   stdout, stderr, status, trace, done, cleanups, calls,
                   prev>>

\* kwargs.get(k), with the default None of clone_repository's signature
Arg(kw, k) == IF k \in DOMAIN kw THEN kw[k] ELSE None

\* Lines 59-65.
GitCommand(url, commit) ==
    <<"git", "clone", "-q">>
        \o (IF Truthy(commit) THEN <<"-b", commit>> ELSE <<>>)
        \o <<url, "working_dir">>

\* Lines 56-57.
SetSshCommand(env, sshkey) ==
    IF Truthy(sshkey)
    THEN Put(env, "GIT_SSH_COMMAND", <<"ssh -i ", sshkey>>)
    ELSE env

\* clone_repository: check_call returns, or raises CalledProcessError when
\* git exits non-zero; a failed git clone leaves the target directory in
\* place or removes it, depending on the git version.
Clone ==
    /\ pc = "clone"
    /\ environ' = SetSshCommand(environ, Arg(kwargs_clone, "sshkey"))
    /\ command' = GitCommand(kwargs_clone["url"], Arg(kwargs_clone, "commit"))
    /\ \/ /\ pc' = "parse"
          /\ UNCHANGED <<exc, working_dir>>
       \/ /\ exc' = "CalledProcessError"
          /\ pc' = "exit"
          /\ working_dir' \in {"exists", "absent"}
    /\ UNCHANGED <<argv, inventory, kwargs_clone, source, file, name, data,
                   result, tiers, tier, locs, output, stdout, stderr, status,
                   trace, done, cleanups, calls, prev>>

\* Cleanup without the isdir test: rmtree raises on a missing directory.
CleanupUnguarded(dir) ==
    IF dir = "exists"
    THEN {[dir |-> "absent", ok |-> TRUE], [dir |-> "exists", ok |-> FALSE]}
    ELSE {[dir |-> dir, ok |-> FALSE]}

\* cleanup(): lines 45-46.  rmtree removes the directory or raises OSError.
\* ok tells whether cleanup returned normally.
Cleanup(dir) ==
    IF dir = "exists"
    THEN {[dir |-> "absent", ok |-> TRUE], [dir |-> "exists", ok |-> FALSE]}
    ELSE {[dir |-> dir, ok |-> TRUE]}

\* __exit__: line 38.  It returns None, so an exception in flight goes on;
\* an exception raised by cleanup() replaces it.
Exit ==
    /\ pc = "exit"
    /\ cleanups' = cleanups + 1
    /\ \E c \in Cleanup(working_dir) :
          /\ working_dir' = c.dir
          /\ exc' = IF c.ok THEN exc ELSE "OSError"
          /\ pc' = IF c.ok /\ exc = "none" THEN "print" ELSE "except"
    /\ UNCHANGED <<environ, argv, inventory, kwargs_clone, source, command,
                   file, name, data, result, tiers, tier, locs, output,
                   stdout, stderr, status, trace, done, calls, prev>>

\* Lines 203-205.
PrintExit ==
    /\ pc = "print"
    /\ stdout' = Append(stdout, <<output, "\n">>)
    /\ status' = 0
    /\ pc' = "halt"
    /\ UNCHANGED <<environ, argv, inventory, kwargs_clone, source,
                   working_dir, command, file, name, data, result, tiers,
                   tier, locs, output, exc, stderr, trace, done, cleanups,
                   calls, prev>>

\* Except leaving with status 0.
ExceptStatusZero ==
    /\ pc = "except"
    /\ stderr' = Append(stderr, <<exc, "\n">>)
    /\ status' = 0
    /\ pc' = "halt"
    /\ UNCHANGED <<environ, argv, inventory, kwargs_clone, source,
                   working_dir, command, file, name, data, result, tiers,
                   tier, locs, output, exc, stdout, trace, done, cleanups,
                   calls, prev>>

\* Lines 207-210.
Except ==
    /\ pc = "except"
    /\ stderr' = Append(stderr, <<exc, "\n">>)
    /\ status' = 1
    /\ pc' = "halt"
    /\ UNCHANGED <<environ, argv, inventory, kwargs_clone, source,
                   working_dir, command, file, name, data, result, tiers,
                   tier, locs, output, exc, stdout, trace, done, cleanups,
                   calls, prev>>

-----------------------------------------------------------------------------
(* Inputs *)

web == <<"web">>
db == <<"db">>
us == <<"us">>
eu == <<"eu">>
prod == <<"prod">>

\* "prod.yml", "inv/web-us.yaml" and "_meta.yml"
ProdYml == << <<prod, <<"yml">>>> >>
WebUsYaml == << <<<<"inv">>>>, <<<<"web", "us">>, <<"yaml">>>> >>
MetaYml == << <<META, <<"yml">>>> >>

\* Host identifiers are opaque to the program.  Every (tier, location) has
\* a host list of its own, so that a group holding the hosts of another
\* pair shows.
HostsOf(t, l) ==
    CASE t = web /\ l = us -> <<"h1", "h2">>
      [] t = web /\ l = eu -> <<"h3">>
      [] t = web /\ l = prod -> <<"h5">>
      [] t = web /\ l = <<"us", "eu">> -> <<"h6", "h7">>
      [] t = db /\ l = us -> <<"h4">>
      [] t = db /\ l = eu -> <<>>
      [] t = db /\ l = prod -> <<"h8">>
      [] t = db /\ l = <<"us", "eu">> -> <<"h9", "h10">>
      [] t = META /\ l = us -> <<"h11">>
      [] t = META /\ l = eu -> <<"h12", "h13">>
      [] t = META /\ l = prod -> <<"h14">>
      [] t = META /\ l = <<"us", "eu">> -> <<"h15", "h16">>
      [] t = <<"web", "us">> /\ l = us -> <<"h17">>
      [] t = <<"web", "us">> /\ l = eu -> <<"h18", "h19">>
      [] t = <<"web", "us">> /\ l = prod -> <<"h20">>
      [] t = <<"web", "us">> /\ l = <<"us", "eu">> -> <<"h21", "h22">>
      [] t = us /\ l = us -> <<"h23">>
      [] t = us /\ l = eu -> <<"h24", "h25">>
      [] t = us /\ l = prod -> <<"h26">>
      [] t = us /\ l = <<"us", "eu">> -> <<"h27", "h28">>
      [] t = web /\ l = <<"prod", "us">> -> <<"h29">>
      [] t = us /\ l = <<"prod", "us">> -> <<"h30", "h31">>
      [] t = <<"prod", "prod">> /\ l = us -> <<"h32">>
      [] t = <<"prod", "prod">> /\ l = prod -> <<"h33", "h34">>
      [] t = <<"prod", "prod">> /\ l = <<"prod", "us">> -> <<"h35">>
      [] t = <<"prod", "us">> /\ l = us -> <<"h36", "h37">>
      [] t = <<"prod", "us">> /\ l = prod -> <<"h38">>
      [] t = <<"prod", "us">> /\ l = <<"prod", "us">> -> <<"h39", "h40">>

RECURSIVE Pairs(_)
\* number of (tier, location) pairs of a shape
Pairs(shape) ==
    IF DOMAIN shape = {} THEN 0
    ELSE LET t == CHOOSE x \in DOMAIN shape : TRUE
         IN  Cardinality(shape[t])
                + Pairs([x \in DOMAIN shape \ {t} |-> shape[x]])

\* Shapes with at most MaxTiers tiers and MaxPairs pairs, over the given
\* tier and location names.
Shapes(T, L) ==
    {shape \in UNION {[S -> SUBSET L] :
                         S \in {X \in SUBSET T : Cardinality(X) <= MaxTiers}} :
        Pairs(shape) <= MaxPairs}

\* The document with the locations shape[t] under tier t.
Document(shape) ==
    PyDict([t \in DOMAIN shape |->
               PyDict([l \in shape[t] |-> PyList(HostsOf(t, l))])])

\* Two-level inventories (tier -> location -> host sequence) over the given
\* names, each in a file at the given path.
Inventories(path, T, L) ==
    {<<path, Document(shape)>> : shape \in Shapes(T, L)}

\* { web: { us: [h1, h2], eu: [h3] }, db: { us: [h4] } }
Scenario == Document((web :> {us, eu}) @@ (db :> {us}))

\* Inputs of parse_inventory: plain names, names with the delimiter, and
\* names that are equal to, or a prefix of, another name or the inventory
\* name.
ParseInputs ==
    Inventories(ProdYml, {web, db, META, <<"web", "us">>, us},
                {us, eu, prod, <<"us", "eu">>})
    \cup Inventories(ProdYml, {web, us, <<"prod", "prod">>, <<"prod", "us">>},
                     {us, prod, <<"prod", "us">>})
    \cup Inventories(WebUsYaml, {web, <<"web", "us">>, us},
                     {us, eu, <<"us", "eu">>})
    \cup Inventories(MetaYml, {web, db}, {us, eu})

\* Inputs of the two-call specification.
TwiceInputs == Inventories(ProdYml, {web, db, <<"web", "us">>}, {us, eu})

\* What the clone can hold at the inventory path: nothing, a file that is
\* not YAML, and documents of several shapes.
Files ==
    {[kind |-> "missing"], [kind |-> "invalid"]}
    \cup {[kind |-> "doc", doc |-> d] :
            d \in {PyStr,
                   PyDict((web :> PyStr)),
                   PyDict((web :> PyDict((us :> PyStr)))),
                   PyDict((web :> PyDict((us :> PyDate)))),
                   PyDict((web :> PyDict((META :> PyList(<<"h1">>))))),
                   Document((web :> {us}) @@ (<<"web", "us">> :> {})),
                   Scenario}}

EnvVars == {"URL", "INVENTORY", "SSHKEY", "COMMIT"}

EnvValue(v, c) ==
    CASE v = "INVENTORY" -> IF c = "empty" THEN <<>> ELSE ProdYml
      [] v = "URL" -> IF c = "empty" THEN "" ELSE "env_url"
      [] v = "SSHKEY" -> IF c = "empty" THEN "" ELSE "env_key"
      [] v = "COMMIT" -> IF c = "empty" THEN "" ELSE "env_ref"

\* Every variable is unset, set to the empty string, or set.
Environs ==
    {[v \in {w \in EnvVars : c[w] # "unset"} |-> EnvValue(v, c[v])] :
        c \in [EnvVars -> {"unset", "empty", "set"}]}

\* Command lines: a positional argument missing, or both given, with and
\* without the options.
Argvs ==
    {[ok |-> FALSE]}
    \cup {[ok |-> TRUE, url |-> "cli_url", inventory |-> WebUsYaml,
           sshkey |-> k, commit |-> c] :
            k \in {None, "cli_key"}, c \in {None, "cli_ref"}}

-----------------------------------------------------------------------------
(* Specifications *)

InitLocals ==
    /\ name = <<>>
    /\ data = PyDict(<<>>)
    /\ result = <<>>
    /\ tiers = {}
    /\ tier = <<>>
    /\ locs = {}
    /\ output = <<>>
    /\ exc = "none"
    /\ stdout = <<>>
    /\ stderr = <<>>
    /\ status = -1
    /\ trace = <<>>
    /\ done = {}
    /\ cleanups = 0
    /\ calls = 0
    /\ prev = [output |-> <<>>, trace |-> <<>>]
    /\ command = <<>>

\* The main program, from its first statement.
Init ==
    /\ pc = "resolve"
    /\ environ \in Environs
    /\ argv \in Argvs
    /\ file \in Files
    /\ inventory = <<>>
    /\ kwargs_clone = <<>>
    /\ source = "none"
    /\ working_dir = "none"
    /\ InitLocals

Next ==
    \/ Resolve
    \/ Construct
    \/ Clone
    \/ ParseOpen
    \/ TierStep
    \/ LocStep
    \/ ParseReturn
    \/ Exit
    \/ PrintExit
    \/ Except

Spec == Init /\ [][Next]_vars

\* parse_inventory called on an object whose working directory holds a
\* clone with a two-level inventory at the path.
InitCall(inputs) ==
    /\ pc = "parse"
    /\ environ = <<>>
    /\ argv = [ok |-> FALSE]
    /\ \E in \in inputs :
          /\ inventory = in[1]
          /\ file = [kind |-> "doc", doc |-> in[2]]
    /\ kwargs_clone = <<>>
    /\ source = "none"
    /\ working_dir = "exists"
    /\ InitLocals

InitParse == InitCall(ParseInputs)

NextParse ==
    \/ ParseOpen
    \/ TierStep
    \/ LocStep
    \/ ParseReturn

SpecParse == InitParse /\ [][NextParse]_vars

InitTwice == InitCall(TwiceInputs)

NextTwice ==
    \/ ParseOpen
    \/ TierStep
    \/ LocStep
    \/ ParseReturn
    \/ Recall

SpecTwice == InitTwice /\ [][NextTwice]_vars

-----------------------------------------------------------------------------
(* Vocabulary of the properties *)

\* The source inventory as parse_inventory loaded it.
Tiers == DOMAIN data.val
LocsOf(t) == DOMAIN data.val[t].val
AllLocs == UNION {LocsOf(t) : t \in Tiers}
TiersWith(l) == {t \in Tiers : l \in LocsOf(t)}

\* Group names the loops derive from the source.
InvTierKeys == {Format(name, t) : t \in Tiers}
TierLocKeys == UNION {{Format(t, l) : l \in LocsOf(t)} : t \in Tiers}
InvTierLocKeys == {Format(name, k) : k \in TierLocKeys}
InvLocKeys == {Format(name, l) : l \in AllLocs}

\* Names the loops assign a fresh group to, whatever the graph holds
\* (lines 99, 102, 135 and 138).
AssignedKeys == Tiers \cup InvTierKeys \cup TierLocKeys \cup InvTierLocKeys

\* parse_inventory has returned its document.
Returned == pc = "exit" /\ exc = "none" /\ calls > 0

\* The graph exists: the call is past line 90.
Building == calls > 0 /\ DOMAIN result # {}

Count(list, x) == Cardinality({i \in DOMAIN list : list[i] = x})

IsPrefix(a, b) == Len(a) <= Len(b) /\ \A i \in DOMAIN a : a[i] = b[i]

HostsGroupIs(k, t, l) ==
    /\ k \in DOMAIN result
    /\ "hosts" \in DOMAIN result[k]
    /\ result[k].hosts = data.val[t].val[l]

-----------------------------------------------------------------------------
(* C1 *)

HostsPlaced ==
    /\ \A t \in Tiers : \A l \in LocsOf(t) : HostsGroupIs(Format(t, l), t, l)
    /\ \A k \in DOMAIN result :
          "hosts" \in DOMAIN result[k] => k \in TierLocKeys

\* No tier-location name is also the name of a tier, of an inventory-tier
\* group, of an inventory-tier-location group or of another pair.
TierLocKeysOwn ==
    \A t \in Tiers : \A l \in LocsOf(t) :
        /\ Format(t, l) \notin Tiers \cup InvTierKeys \cup InvTierLocKeys
        /\ \A t2 \in Tiers : \A l2 \in LocsOf(t2) :
              Format(t2, l2) = Format(t, l) => t2 = t /\ l2 = l

\* C1 as stated: for every two-level inventory and every inventory name,
\* when parse_inventory has returned, each group "{tier}-{location}" holds
\* exactly the source host sequence of [tier][location], and no group other
\* than these carries a hosts list.
C1_AsStated == Returned => HostsPlaced

\* C1 amended: the same, for inventories in which no tier-location name
\* "{tier}-{location}" coincides with a tier name, an inventory-tier name,
\* an inventory-tier-location name or the tier-location name of another
\* pair.
C1_HostsPlaced == Returned /\ TierLocKeysOwn => HostsPlaced

C1_Witness ==
    /\ Returned
    /\ TierLocKeysOwn
    /\ Cardinality(TierLocKeys) >= 3
    /\ \E t \in Tiers : \E l \in LocsOf(t) :
          /\ Len(data.val[t].val[l].val) >= 2
          /\ HostsGroupIs(Format(t, l), t, l)

-----------------------------------------------------------------------------
(* C2 *)

RootIsTiers ==
    /\ HasChildren(result[name])
    /\ \A t \in Tiers : Count(result[name].children, t) = 1
    /\ \A i \in DOMAIN result[name].children :
          result[name].children[i] \in Tiers

\* C2 as stated: when parse_inventory has processed all tiers, the children
\* of the root group contain every tier name exactly once and nothing else,
\* in whatever order the tiers were visited.
C2_AsStated == Returned => RootIsTiers

\* The inventory name is not also a tier, location or tier-location name.
RootOwn == name \notin Tiers \cup AllLocs \cup TierLocKeys

\* C2 amended: the same, provided the inventory name is not itself a tier
\* name, a location name or a tier-location name "{tier}-{location}" of the
\* source.
C2_RootIsTiers == Returned /\ RootOwn => RootIsTiers

C2_Witness ==
    /\ Returned
    /\ RootOwn
    /\ Cardinality(Tiers) >= 2
    /\ RootIsTiers
    /\ Len(trace) >= 2
    /\ StrLess(trace[Len(trace)][1], trace[1][1])

-----------------------------------------------------------------------------
(* C3 *)

\* Locations that two or more tiers reference.
SharedLocs == {l \in AllLocs : Cardinality(TiersWith(l)) >= 2}

\* Some inner iteration for location l has completed.
Visited(l) == \E p \in done : p[2] = l

LocOnce(l) ==
    Visited(l) =>
        /\ l \in DOMAIN result
        /\ HasChildren(result[l])
        /\ Count(result[l].children, Format(name, l)) = 1

LocAppendOnly(l) ==
    l \in DOMAIN result /\ HasChildren(result[l]) =>
        /\ l \in DOMAIN result'
        /\ HasChildren(result'[l])
        /\ IsPrefix(result[l].children, result'[l].children)

\* C3 as stated: for a location l that two or more tiers reference, from
\* the first inner iteration for l to the returned graph the children of
\* group l contain "name-l" exactly once, and the children list only ever
\* gets entries appended.
C3_AsStated ==
    /\ [](\A l \in SharedLocs : LocOnce(l))
    /\ [][\A l \in SharedLocs : LocAppendOnly(l)]_vars

\* Shared locations whose name is the name of no other group: not the
\* inventory name, nor a tier, inventory-tier, inventory-location,
\* tier-location or inventory-tier-location name.
OwnSharedLocs == SharedLocs \ ({name} \cup AssignedKeys \cup InvLocKeys)

\* C3 amended: the same, for a location l whose name is not also the name
\* of another group of the graph (the inventory name, a tier, or a derived
\* inventory-tier, inventory-location, tier-location or
\* inventory-tier-location name).
C3_LocOnce ==
    /\ [](\A l \in OwnSharedLocs : LocOnce(l))
    /\ [][\A l \in OwnSharedLocs : LocAppendOnly(l)]_vars

C3_Witness ==
    /\ Returned
    /\ \E l \in OwnSharedLocs :
          /\ Cardinality({p \in done : p[2] = l}) >= 2
          /\ Count(result[l].children, Format(name, l)) = 1

-----------------------------------------------------------------------------
(* C4 *)

MetaIntact ==
    /\ META \in DOMAIN result
    /\ DOMAIN result[META] = {"hostvars"}
    /\ result[META].hostvars = <<>>

\* C4 as stated: in every state of the build and in the returned graph,
\* '_meta' is present and is {hostvars: {}}, whatever the tier and location
\* names of the source.
C4_AsStated == Building => MetaIntact

\* C4 amended: the same, provided neither the inventory name nor a tier is
\* named "_meta".
C4_MetaIntact ==
    Building /\ name # META /\ META \notin Tiers => MetaIntact

C4_Witness ==
    /\ Returned
    /\ name # META
    /\ META \notin Tiers
    /\ Cardinality(TierLocKeys) >= 2
    /\ MetaIntact

-----------------------------------------------------------------------------
(* C10 *)

InvLocComplete(l) ==
    LET k == Format(name, l)
    IN  /\ k \in DOMAIN result
        /\ HasChildren(result[k])
        /\ \A t \in TiersWith(l) : Count(result[k].children, Format(t, l)) = 1
        /\ \A i \in DOMAIN result[k].children :
              \E t \in TiersWith(l) : result[k].children[i] = Format(t, l)

InvLocGrows(l) ==
    LET k == Format(name, l)
    IN  k \in DOMAIN result /\ HasChildren(result[k]) =>
            /\ k \in DOMAIN result'
            /\ HasChildren(result'[k])
            /\ IsPrefix(result[k].children, result'[k].children)

\* C10 as stated: the children of the inventory-location group "name-l"
\* only grow while tiers are processed, and when parse_inventory returns
\* they are exactly the groups "t-l" of the tiers t that have location l,
\* each once.
C10_AsStated ==
    /\ [](Returned => \A l \in AllLocs : InvLocComplete(l))
    /\ [][\A l \in AllLocs : InvLocGrows(l)]_vars

\* Locations whose inventory-location name is the name of no other group.
OwnInvLoc == {l \in AllLocs : Format(name, l) \notin AssignedKeys \cup AllLocs}

\* C10 amended: the same, for a location l whose inventory-location name
\* "name-l" is not also a tier, location, inventory-tier, tier-location or
\* inventory-tier-location name.
C10_InvLocGrows ==
    /\ [](Returned => \A l \in OwnInvLoc : InvLocComplete(l))
    /\ [][\A l \in OwnInvLoc : InvLocGrows(l)]_vars

C10_Witness ==
    /\ Returned
    /\ \E l \in OwnInvLoc :
          /\ Cardinality(TiersWith(l)) >= 2
          /\ InvLocComplete(l)

-----------------------------------------------------------------------------
(* C9 *)

\* parse_inventory has returned for the scenario's document in prod.yml.
InScenario == Returned /\ inventory = ProdYml /\ data = Scenario

ScenarioFixed ==
    /\ result[Format(web, us)] = [hosts |-> PyList(<<"h1", "h2">>)]
    /\ result[us] = Children(<<Format(prod, us)>>)
    /\ result[Format(prod, web)] = Children(<<web>>)
    /\ result[Format(prod, Format(web, us))] = Children(<<Format(web, us)>>)

\* C9 as stated: the scenario's graph has prod with children [db, web], web
\* with [web-us, web-eu], web-us with hosts [h1, h2], us with [prod-us],
\* prod-us with [web-us, db-us], prod-web with [web] and prod-web-us with
\* [web-us], each list exactly as written.
C9_AsStated ==
    InScenario =>
        /\ ScenarioFixed
        /\ result[prod] = Children(<<db, web>>)
        /\ result[web] = Children(<<Format(web, us), Format(web, eu)>>)
        /\ result[Format(prod, us)] =
              Children(<<Format(web, us), Format(db, us)>>)

\* C9 amended: web-us, us, prod-web and prod-web-us are as written; prod,
\* web and prod-us have the listed members, each once, in the order in which
\* the tiers and locations were visited: prod is [web, db] and prod-us is
\* [web-us, db-us] when web is visited first, [db, web] and [db-us, web-us]
\* when db is; web is [web-us, web-eu] when us is visited before eu under
\* web, [web-eu, web-us] otherwise.
C9_Scenario ==
    InScenario =>
        /\ ScenarioFixed
        /\ result[prod] \in {Children(<<web, db>>), Children(<<db, web>>)}
        /\ result[prod].children[1] = trace[1][1]
        /\ result[Format(prod, us)] =
              Children(<<Format(result[prod].children[1], us),
                         Format(result[prod].children[2], us)>>)
        /\ result[web] \in {Children(<<Format(web, us), Format(web, eu)>>),
                            Children(<<Format(web, eu), Format(web, us)>>)}
        /\ \A i, j \in DOMAIN trace :
              trace[i] = <<web, us>> /\ trace[j] = <<web, eu>> =>
                  (i < j <=> result[web].children[1] = Format(web, us))

C9_Witness ==
    /\ InScenario
    /\ trace = <<<<web>>, <<web, us>>, <<web, eu>>, <<db>>, <<db, us>>>>
    /\ result[prod] = Children(<<web, db>>)
    /\ result[Format(prod, us)] = Children(<<Format(web, us), Format(db, us)>>)

-----------------------------------------------------------------------------
(* C7 *)

\* A call has returned and the call before it had returned too.
Twice == Returned /\ calls >= 2

Keys(doc) == [i \in DOMAIN doc |-> doc[i][1]]

\* C7 as stated: two calls of parse_inventory on the same input return the
\* same JSON document, in whatever order each of them visits the tiers and
\* locations of the mapping.
C7_AsStated == Twice => output = prev.output

\* C7 amended: two calls on the same input that visit the tiers and
\* locations in the same order return the same JSON document; in whatever
\* order they visit them, the two documents have the same group names in
\* the same order.
C7_Deterministic ==
    Twice =>
        /\ Keys(output) = Keys(prev.output)
        /\ trace = prev.trace => output = prev.output

C7_Witness ==
    /\ Twice
    /\ trace = prev.trace
    /\ Len(trace) >= 4
    /\ output = prev.output

-----------------------------------------------------------------------------
(* C8 *)

\* Variable v is in the environment with a non-empty value.
EnvSet(v) ==
    /\ v \in DOMAIN environ
    /\ IF v = "INVENTORY" THEN environ[v] # <<>> ELSE environ[v] # ""

EnvName(k) ==
    CASE k = "url" -> "URL"
      [] k = "sshkey" -> "SSHKEY"
      [] k = "commit" -> "COMMIT"

\* Every input is the environment's.
AllFromEnviron ==
    /\ inventory = environ["INVENTORY"]
    /\ \A k \in {"url", "sshkey", "commit"} :
          IF EnvName(k) \in DOMAIN environ
          THEN k \in DOMAIN kwargs_clone /\ kwargs_clone[k] = environ[EnvName(k)]
          ELSE k \notin DOMAIN kwargs_clone

\* Every input is the command line's.
AllFromArgv ==
    /\ inventory = argv.inventory
    /\ DOMAIN kwargs_clone = {"url", "sshkey", "commit"}
    /\ kwargs_clone["url"] = argv.url
    /\ kwargs_clone["sshkey"] = argv.sshkey
    /\ kwargs_clone["commit"] = argv.commit

\* The inputs were resolved (the command line, when used, was complete).
Resolved == source # "none" /\ ~(pc = "halt" /\ status = 2)

Unmixed ==
    /\ source = "environ" => AllFromEnviron
    /\ source = "argv" => AllFromArgv

\* C8 as stated: the inputs come from the environment when three required
\* variables (URL, INVENTORY and one of the other two) are present and
\* non-empty, from the command line in every other case, and never from
\* both.
C8_AsStated ==
    source # "none" =>
        /\ \E third \in {"SSHKEY", "COMMIT"} :
              source = "environ" <=>
                  EnvSet("URL") /\ EnvSet("INVENTORY") /\ EnvSet(third)
        /\ Resolved => Unmixed

\* C8 amended: the inputs come from the environment when the two required
\* variables URL and INVENTORY are present and non-empty (SSHKEY and COMMIT
\* are then read from the environment when present), from the command line
\* in every other case, and never from both.
C8_Sources ==
    source # "none" =>
        /\ source = "environ" <=> EnvSet("URL") /\ EnvSet("INVENTORY")
        /\ source \in {"environ", "argv"}
        /\ Resolved => Unmixed

C8_Witness ==
    /\ pc = "halt"
    /\ source = "environ"
    /\ "SSHKEY" \notin DOMAIN environ
    /\ "COMMIT" \in DOMAIN environ
    /\ argv.ok
    /\ argv.sshkey # None
    /\ AllFromEnviron

-----------------------------------------------------------------------------
(* C5 *)

\* The run reached the fetch step and the process has exited.
Fetched == pc = "halt" /\ command # <<>>

Success ==
    /\ status = 0
    /\ output = dumps(result)
    /\ stdout = << <<output, "\n">> >>
    /\ stderr = <<>>

Failure ==
    /\ status = 1
    /\ stdout = <<>>
    /\ Len(stderr) = 1

FetchFailed == command # <<>> /\ calls = 0

IsDoc == file.kind = "doc"

\* The document's top level, or the value of a tier, is not a mapping.
NotTwoLevels ==
    IsDoc /\ (file.doc.kind = "dict" =>
                 \E t \in DOMAIN file.doc.val : file.doc.val[t].kind # "dict")

\* The value of a location is not a sequence.
LeafNotSequence ==
    /\ IsDoc
    /\ file.doc.kind = "dict"
    /\ \E t \in DOMAIN file.doc.val :
          /\ file.doc.val[t].kind = "dict"
          /\ \E l \in DOMAIN file.doc.val[t].val :
                file.doc.val[t].val[l].kind # "list"

Outcomes ==
    /\ Success \/ Failure
    /\ exc = "none" <=> Success

-----------------------------------------------------------------------------
(* C6 *)

\* The process has exited after creating the working directory.
ExitedWithDir == pc = "halt" /\ working_dir # "none"

\* cleanup() raised only on a directory that was there.
CleanupQuietWhenAbsent == exc = "OSError" => working_dir = "exists"

\* C6 as stated: on every exit path of an invocation that created the
\* working directory, cleanup() was called and the directory is gone when
\* the process exits; cleanup() raises nothing when the directory is
\* already absent.
C6_AsStated ==
    ExitedWithDir =>
        /\ cleanups >= 1
        /\ working_dir = "absent"
        /\ CleanupQuietWhenAbsent

\* C6 amended: on every exit path of an invocation that created the working
\* directory, cleanup() was called once, and the directory is gone when the
\* process exits unless rmtree itself failed, in which case that error is
\* the one reported, with status 1; cleanup() raises nothing when the
\* directory is already absent.
C6_CleanupAttempted ==
    ExitedWithDir =>
        /\ cleanups = 1
        /\ \/ working_dir = "absent"
           \/ /\ exc = "OSError"
              /\ status = 1
              /\ stderr = << <<"OSError", "\n">> >>
        /\ CleanupQuietWhenAbsent

C6_Witness ==
    /\ ExitedWithDir
    /\ FetchFailed
    /\ exc = "CalledProcessError"
    /\ cleanups = 1
    /\ working_dir = "absent"

====
